---------------------------- MODULE Spec2Model ----------------------------
(***************************************************************************)
(* Maritime vessel safety-system simulators: the central alarm interface   *)
(* (Simulation_Models/central_alarm_interface.py), the diagnostics runner  *)
(* (Simulation_Models/diagnostic_simulation.py) and the three subsystem    *)
(* simulators (Additional_Test_Cases/interface-tests.py).                  *)
(*                                                                         *)
(* Units: temperatures in degrees, smoke density in tenths (0.3 is 3),     *)
(* water levels in millimetres, elapsed times in hundredths of a second.   *)
(***************************************************************************)
EXTENDS Integers, Sequences, FiniteSets, TLC

\* ------------------------------------------------------------------------
\* Bounds of the model
\* ------------------------------------------------------------------------

\* number of fire sensors sensor_1 .. sensor_N (the simulator builds 10)
NumSensors == 1

\* number of bilge compartments compartment_1 .. compartment_N (the simulator builds 5)
NumCompartments == 1

\* number of readings of the wall clock (datetime.now) a behaviour may take
MaxClock == 2

\* ------------------------------------------------------------------------
\* Program constants
\* ------------------------------------------------------------------------

\* sensor.get("temp", 0) > 50
TempThreshold == 50

\* sensor.get("smoke", 0) > 0.3, in tenths
SmokeThreshold == 3

\* "alarm_threshold": 150.0
AlarmThreshold == 150

\* initial sensor temperature 25.0
InitialTemp == 25

\* diagnostic stimulus: set_sensor_value("sensor_1", "temp", 60.0)
DiagTemp == 60

\* diagnostic stimulus: set_sensor_value("sensor_1", "smoke", 0.5), in tenths
DiagSmoke == 5

\* time.sleep(0.05) + time.sleep(0.03), in hundredths of a second
MinShutdownTime == 8

\* ------------------------------------------------------------------------
\* Inputs
\* ------------------------------------------------------------------------

SensorIds == 1..NumSensors
CompartmentIds == 1..NumCompartments

\* a sensor id and a compartment id no simulator has
UnknownSensor == NumSensors + 1
UnknownCompartment == NumCompartments + 1

TempValues == {InitialTemp, DiagTemp}
SmokeValues == {0, DiagSmoke}
LevelValues == {0, AlarmThreshold, AlarmThreshold + 1}

\* the calls of set_sensor_value: every sensor with every reading, and one call
\* each with a sensor and with a parameter the simulator does not have
SensorCalls ==
    {<<s, "temp", v>> : s \in SensorIds, v \in TempValues}
        \cup {<<s, "smoke", v>> : s \in SensorIds, v \in SmokeValues}
        \cup {<<UnknownSensor, "temp", DiagTemp>>, <<1, "humidity", DiagTemp>>}

\* the calls of set_water_level: every compartment with every level, and one
\* call with a compartment the simulator does not have
LevelCalls ==
    {<<c, v>> : c \in CompartmentIds, v \in LevelValues}
        \cup {<<UnknownCompartment, AlarmThreshold>>}
ElapsedTimes == {MinShutdownTime, MinShutdownTime + 1}

\* the registration of the test fixtures, in order
Registered == <<"fire", "esd", "bilge">>

\* registrations of other subsystem sets and in other orders: "panel" is an
\* object with both alarm capabilities, "beacon" one with neither
Registrations ==
    {Registered,
     <<"bilge", "esd", "fire">>,
     <<"esd", "panel", "beacon">>,
     <<"beacon", "panel", "esd">>,
     <<"panel", "fire">>,
     <<>>}
\* names set_maintenance_mode may be called with; "ballast" is never registered
CallNames == {"fire", "esd", "bilge", "ballast"}
\* the control points activate_shutdown is called with; "helm" is not one
ActivationInputs == {"bridge", "helm"}

\* Python's None, and a value that is not None
None == <<>>
Some(x) == <<x>>

VARIABLES
    systems,            \* CentralAlarmInterface.systems: names in registration order
    maintenance_mode,   \* CentralAlarmInterface.maintenance_mode
    fire,               \* FireDetectionSimulator: sensors, alarms, power_status
    esd,                \* EmergencyShutdownSimulator: fuel_valves, activation_points, alarm_interface
    bilge,              \* BilgeAlarmSimulator: compartments, alarms, power_status
    panel,              \* a subsystem object with get_alarm_status and alarm_interface both
    last_run,           \* DiagnosticsSimulator.last_run
    clock,              \* the wall clock datetime.now() reads
    last,               \* the most recent call on the central interface or the diagnostics
                        \* runner, [op, args]; SimulatorCall once a simulator was operated
    ret                 \* what that call returned

vars == <<systems, maintenance_mode, fire, esd, bilge, panel, last_run, clock, last, ret>>

\* ------------------------------------------------------------------------
\* Helpers
\* ------------------------------------------------------------------------

\* a direct operation of a subsystem simulator
SimulatorCall == [op |-> "simulator", args |-> <<>>]

Range(s) == {s[i] : i \in 1..Len(s)}

NoAlarms == [visual |-> FALSE, audible |-> FALSE]

\* hasattr(system, attr) for the object registered under a name
HasAttr(name, attr) ==
    CASE name = "fire"  -> attr \in {"sensors", "alarms", "power_status", "set_sensor_value",
                                     "get_alarm_status", "trigger_power_failure", "run_simulation"}
      [] name = "esd"   -> attr \in {"fuel_valves", "activation_points", "alarm_interface",
                                     "activate_shutdown", "get_valve_status"}
      [] name = "bilge" -> attr \in {"compartments", "alarms", "power_status", "set_water_level",
                                     "get_alarm_status", "simulate_power_failure", "run_simulation"}
      [] name = "panel" -> attr \in {"alarms", "get_alarm_status", "alarm_interface"}
      [] name = "beacon" -> FALSE
      [] OTHER          -> FALSE

\* system.get_alarm_status()
get_alarm_status(name) ==
    CASE name = "fire"  -> fire.alarms
      [] name = "bilge" -> bilge.alarms
      [] name = "panel" -> panel.alarms

\* system.alarm_interface
alarm_interface(name) ==
    CASE name = "esd" -> esd.alarm_interface
      [] name = "panel" -> panel.alarm_interface

\* ------------------------------------------------------------------------
\* Construction
\* ------------------------------------------------------------------------

FireInit ==
    [sensors |-> [s \in SensorIds |-> [temp |-> InitialTemp, smoke |-> 0]],
     alarms |-> NoAlarms,
     power_status |-> "main"]

EsdInit ==
    [fuel_valves |-> [main |-> "open", auxiliary |-> "open"],
     activation_points |-> [bridge |-> FALSE, engine_room |-> FALSE],
     alarm_interface |-> [connected |-> TRUE, signal_sent |-> FALSE]]

BilgeInit ==
    [compartments |-> [c \in CompartmentIds |->
                          [water_level |-> 0, alarm_threshold |-> AlarmThreshold]],
     alarms |-> NoAlarms,
     power_status |-> "normal"]

\* an object that has an alarms field read by get_alarm_status and an
\* alarm_interface field: both capabilities check_alarms probes for
PanelInit ==
    [alarms |-> NoAlarms,
     alarm_interface |-> [connected |-> TRUE, signal_sent |-> FALSE]]

\* CentralAlarmInterface(systems) over freshly built subsystem objects
Constructed(registration) ==
    /\ systems = registration
    /\ maintenance_mode = [n \in Range(registration) |-> FALSE]
    /\ fire = FireInit
    /\ esd = EsdInit
    /\ bilge = BilgeInit
    /\ panel = PanelInit
    /\ last_run = None
    /\ clock = 0
    /\ last = [op |-> "__init__", args |-> <<>>]
    /\ ret = None

Init == Constructed(Registered)

\* construction with any of the registrations
InitRegistry == \E registration \in Registrations : Constructed(registration)

\* ------------------------------------------------------------------------
\* CentralAlarmInterface
\* ------------------------------------------------------------------------

\* faulty variant: the flag can be switched on but never off again
set_maintenance_mode_latched(system_name, mode) ==
    /\ last' = [op |-> "set_maintenance_mode", args |-> <<system_name, mode>>]
    /\ IF system_name \in DOMAIN maintenance_mode
       THEN /\ maintenance_mode' =
                   [maintenance_mode EXCEPT ![system_name] = (@ \/ mode)]
            /\ ret' = TRUE
       ELSE /\ maintenance_mode' = maintenance_mode
            /\ ret' = FALSE
    /\ UNCHANGED <<panel, systems, fire, esd, bilge, last_run, clock>>

\* faulty variant: the membership test is missing, any name gets a flag
set_maintenance_mode_unchecked(system_name, mode) ==
    /\ last' = [op |-> "set_maintenance_mode", args |-> <<system_name, mode>>]
    /\ maintenance_mode' =
           [n \in DOMAIN maintenance_mode \cup {system_name} |->
               IF n = system_name THEN mode ELSE maintenance_mode[n]]
    /\ ret' = TRUE
    /\ UNCHANGED <<panel, systems, fire, esd, bilge, last_run, clock>>

\* faulty variant: the mode is written to every subsystem's flag
set_maintenance_mode_all(system_name, mode) ==
    /\ last' = [op |-> "set_maintenance_mode", args |-> <<system_name, mode>>]
    /\ IF system_name \in DOMAIN maintenance_mode
       THEN /\ maintenance_mode' = [n \in DOMAIN maintenance_mode |-> mode]
            /\ ret' = TRUE
       ELSE /\ maintenance_mode' = maintenance_mode
            /\ ret' = FALSE
    /\ UNCHANGED <<panel, systems, fire, esd, bilge, last_run, clock>>

set_maintenance_mode(system_name, mode) ==
    /\ last' = [op |-> "set_maintenance_mode", args |-> <<system_name, mode>>]
    /\ IF system_name \in DOMAIN maintenance_mode
       THEN /\ maintenance_mode' = [maintenance_mode EXCEPT ![system_name] = mode]
            /\ ret' = TRUE
       ELSE /\ maintenance_mode' = maintenance_mode
            /\ ret' = FALSE
    /\ UNCHANGED <<panel, systems, fire, esd, bilge, last_run, clock>>

SetMaintenanceMode ==
    \E system_name \in CallNames, mode \in BOOLEAN : set_maintenance_mode(system_name, mode)

\* self.maintenance_mode.get(name, False)
maintenance_get(name) ==
    IF name \in DOMAIN maintenance_mode THEN maintenance_mode[name] ELSE FALSE

\* faulty variant: the alarm_interface branch is missing
alarm_active_status_only(name) ==
    IF HasAttr(name, "get_alarm_status")
    THEN LET status == get_alarm_status(name)
         IN  status.visual \/ status.audible
    ELSE FALSE

\* faulty variant: the alarm_interface branch reads "connected"
alarm_active_connected(name) ==
    IF HasAttr(name, "get_alarm_status")
    THEN LET status == get_alarm_status(name)
         IN  status.visual \/ status.audible
    ELSE IF HasAttr(name, "alarm_interface")
         THEN alarm_interface(name).connected
         ELSE FALSE

\* faulty variant: a set signal flag also makes a subsystem with
\* get_alarm_status active
alarm_active_signal_too(name) ==
    \/ HasAttr(name, "get_alarm_status")
          /\ (get_alarm_status(name).visual \/ get_alarm_status(name).audible)
    \/ HasAttr(name, "alarm_interface") /\ alarm_interface(name).signal_sent

\* faulty variant: a subsystem without either capability counts as alarming
alarm_active_default_true(name) ==
    IF HasAttr(name, "get_alarm_status")
    THEN LET status == get_alarm_status(name)
         IN  status.visual \/ status.audible
    ELSE IF HasAttr(name, "alarm_interface")
         THEN alarm_interface(name).signal_sent
         ELSE TRUE

\* check_alarms, lines 44-51: whether the subsystem has an active alarm condition
alarm_active(name) ==
    IF HasAttr(name, "get_alarm_status")
    THEN LET status == get_alarm_status(name)
         IN  status.visual \/ status.audible
    ELSE IF HasAttr(name, "alarm_interface")
         THEN alarm_interface(name).signal_sent
         ELSE FALSE

\* faulty variant: a suppressed alarm still raises the overall alarm
check_subsystem_suppressed_raises(acc, name) ==
    IF alarm_active(name)
    THEN IF maintenance_get(name)
         THEN [acc EXCEPT !.suppressed_alarms = Append(@, name),
                          !.overall_alarm = TRUE]
         ELSE [acc EXCEPT !.triggered_systems = Append(@, name),
                          !.overall_alarm = TRUE]
    ELSE acc

\* faulty variant: a triggered alarm is listed but the overall alarm is not set
check_subsystem_overall_unset(acc, name) ==
    IF alarm_active(name)
    THEN IF maintenance_get(name)
         THEN [acc EXCEPT !.suppressed_alarms = Append(@, name)]
         ELSE [acc EXCEPT !.triggered_systems = Append(@, name)]
    ELSE acc

\* faulty variant: the else is missing, a suppressed alarm is listed as triggered too
check_subsystem_no_else(acc, name) ==
    IF alarm_active(name)
    THEN IF maintenance_get(name)
         THEN [acc EXCEPT !.suppressed_alarms = Append(@, name),
                          !.triggered_systems = Append(@, name),
                          !.overall_alarm = TRUE]
         ELSE [acc EXCEPT !.triggered_systems = Append(@, name),
                          !.overall_alarm = TRUE]
    ELSE acc

\* check_alarms, lines 53-60: one subsystem's contribution to the result so far
check_subsystem(acc, name) ==
    IF alarm_active(name)
    THEN IF maintenance_get(name)
         THEN [acc EXCEPT !.suppressed_alarms = Append(@, name)]
         ELSE [acc EXCEPT !.triggered_systems = Append(@, name),
                          !.overall_alarm = TRUE]
    ELSE acc

\* faulty variant: the subsystems are visited last registered first
RECURSIVE check_loop_reversed(_, _)
check_loop_reversed(i, acc) ==
    IF i > Len(systems)
    THEN acc
    ELSE check_loop_reversed(i + 1, check_subsystem(acc, systems[Len(systems) + 1 - i]))

\* check_alarms, line 42: the loop over self.systems.items(), from item i on
RECURSIVE check_loop(_, _)
check_loop(i, acc) ==
    IF i > Len(systems)
    THEN acc
    ELSE check_loop(i + 1, check_subsystem(acc, systems[i]))

\* the dictionary check_alarms returns in the current state
check_alarms ==
    check_loop(1, [overall_alarm |-> FALSE,
                   triggered_systems |-> <<>>,
                   suppressed_alarms |-> <<>>])

\* faulty variant: checking acknowledges the fire and bilge alarms it has read
CheckAlarms_acknowledging ==
    /\ last' = [op |-> "check_alarms", args |-> <<>>]
    /\ ret' = check_alarms
    /\ fire' = [fire EXCEPT !.alarms = NoAlarms]
    /\ bilge' = [bilge EXCEPT !.alarms = NoAlarms]
    /\ UNCHANGED <<panel, systems, maintenance_mode, esd, last_run, clock>>

CheckAlarms ==
    /\ last' = [op |-> "check_alarms", args |-> <<>>]
    /\ ret' = check_alarms
    /\ UNCHANGED <<panel, systems, maintenance_mode, fire, esd, bilge, last_run, clock>>

\* faulty variant: only the alarms field is cleared, the signal flag is left
reset_system_alarms_only(name, obj) ==
    IF HasAttr(name, "alarms")
    THEN [obj EXCEPT !.alarms = NoAlarms]
    ELSE obj

\* reset_all, lines 75-81: what the loop body does to one subsystem object
reset_system(name, obj) ==
    LET o1 == IF HasAttr(name, "alarms")
              THEN [obj EXCEPT !.alarms = NoAlarms]
              ELSE obj
    IN  IF HasAttr(name, "alarm_interface")
        THEN [o1 EXCEPT !.alarm_interface.signal_sent = FALSE]
        ELSE o1

\* reset_all on the object registered under a name, if any
reset_registered(name, obj) ==
    IF name \in Range(systems) THEN reset_system(name, obj) ELSE obj

\* faulty variant: resetting the alarms also ends every maintenance mode
ResetAll_clearing_maintenance ==
    /\ fire' = reset_registered("fire", fire)
    /\ esd' = reset_registered("esd", esd)
    /\ bilge' = reset_registered("bilge", bilge)
    /\ panel' = reset_registered("panel", panel)
    /\ maintenance_mode' = [n \in DOMAIN maintenance_mode |-> FALSE]
    /\ last' = [op |-> "reset_all", args |-> <<>>]
    /\ ret' = None
    /\ UNCHANGED <<systems, last_run, clock>>

ResetAll ==
    /\ fire' = reset_registered("fire", fire)
    /\ esd' = reset_registered("esd", esd)
    /\ bilge' = reset_registered("bilge", bilge)
    /\ panel' = reset_registered("panel", panel)
    /\ last' = [op |-> "reset_all", args |-> <<>>]
    /\ ret' = None
    /\ UNCHANGED <<systems, maintenance_mode, last_run, clock>>

\* ------------------------------------------------------------------------
\* FireDetectionSimulator
\* ------------------------------------------------------------------------

\* set_sensor_value: whether the sensor and the parameter exist
fire_has_parameter(f, sensor_id, parameter) ==
    /\ sensor_id \in DOMAIN f.sensors
    /\ parameter \in DOMAIN f.sensors[sensor_id]

\* set_sensor_value: the simulator afterwards
set_sensor_value(f, sensor_id, parameter, value) ==
    IF fire_has_parameter(f, sensor_id, parameter)
    THEN [f EXCEPT !.sensors[sensor_id][parameter] = value]
    ELSE f

\* run_simulation: the test of one sensor
sensor_over_threshold(sensor) ==
    sensor.temp > TempThreshold \/ sensor.smoke > SmokeThreshold

\* faulty variant: the sensors are only read on main power
fire_run_simulation_main_power_only(f) ==
    IF f.power_status = "main" /\ \E s \in DOMAIN f.sensors : sensor_over_threshold(f.sensors[s])
    THEN [f EXCEPT !.alarms = [visual |-> TRUE, audible |-> TRUE]]
    ELSE f

\* FireDetectionSimulator.run_simulation: the simulator afterwards
fire_run_simulation(f) ==
    IF \E s \in DOMAIN f.sensors : sensor_over_threshold(f.sensors[s])
    THEN [f EXCEPT !.alarms = [visual |-> TRUE, audible |-> TRUE]]
    ELSE f

FireSetSensorValue ==
    \E call \in SensorCalls :
        /\ fire' = set_sensor_value(fire, call[1], call[2], call[3])
        /\ last' = SimulatorCall
        /\ ret' = None
        /\ UNCHANGED <<panel, systems, maintenance_mode, esd, bilge, last_run, clock>>

FireRunSimulation ==
    /\ fire' = fire_run_simulation(fire)
    /\ last' = SimulatorCall
    /\ ret' = None
    /\ UNCHANGED <<panel, systems, maintenance_mode, esd, bilge, last_run, clock>>

\* interface-tests.py line 137: the test overwrites the alarms field
FireClearAlarms ==
    /\ fire' = [fire EXCEPT !.alarms = NoAlarms]
    /\ last' = SimulatorCall
    /\ ret' = None
    /\ UNCHANGED <<panel, systems, maintenance_mode, esd, bilge, last_run, clock>>

\* ------------------------------------------------------------------------
\* EmergencyShutdownSimulator
\* ------------------------------------------------------------------------

\* activate_shutdown: the simulator afterwards
activate_shutdown(e, activation_point) ==
    IF activation_point \in DOMAIN e.activation_points
    THEN [e EXCEPT !.activation_points[activation_point] = TRUE,
                   !.fuel_valves.main = "closed",
                   !.fuel_valves.auxiliary = "closed",
                   !.alarm_interface.signal_sent = TRUE]
    ELSE e

\* activate_shutdown: the value returned, given the time the clock measured
shutdown_time(e, activation_point, elapsed) ==
    IF activation_point \in DOMAIN e.activation_points THEN Some(elapsed) ELSE None

\* get_valve_status
get_valve_status(e) == e.fuel_valves

EsdActivateShutdown ==
    \E activation_point \in ActivationInputs :
        /\ esd' = activate_shutdown(esd, activation_point)
        /\ last' = SimulatorCall
        /\ ret' = None
        /\ UNCHANGED <<panel, systems, maintenance_mode, fire, bilge, last_run, clock>>

\* interface-tests.py line 146: the test clears the signal flag
EsdClearSignal ==
    /\ esd' = [esd EXCEPT !.alarm_interface.signal_sent = FALSE]
    /\ last' = SimulatorCall
    /\ ret' = None
    /\ UNCHANGED <<panel, systems, maintenance_mode, fire, bilge, last_run, clock>>

\* ------------------------------------------------------------------------
\* BilgeAlarmSimulator
\* ------------------------------------------------------------------------

\* set_water_level: the simulator afterwards
set_water_level(b, compartment_id, level) ==
    IF compartment_id \in DOMAIN b.compartments
    THEN [b EXCEPT !.compartments[compartment_id].water_level = level]
    ELSE b

\* faulty variant: the comparison excludes the threshold itself
compartment_over_threshold_strict(comp) ==
    comp.water_level > comp.alarm_threshold

\* run_simulation: the test of one compartment
compartment_over_threshold(comp) ==
    comp.water_level >= comp.alarm_threshold

\* faulty variant: the alarms follow the levels, they go off when no
\* compartment is over its threshold
bilge_run_simulation_following(b) ==
    IF \E c \in DOMAIN b.compartments : compartment_over_threshold(b.compartments[c])
    THEN [b EXCEPT !.alarms = [visual |-> TRUE, audible |-> TRUE]]
    ELSE [b EXCEPT !.alarms = NoAlarms]

\* BilgeAlarmSimulator.run_simulation: the simulator afterwards
bilge_run_simulation(b) ==
    IF \E c \in DOMAIN b.compartments : compartment_over_threshold(b.compartments[c])
    THEN [b EXCEPT !.alarms = [visual |-> TRUE, audible |-> TRUE]]
    ELSE b

BilgeSetWaterLevel ==
    \E call \in LevelCalls :
      LET compartment_id == call[1]
          level == call[2]
      IN
        /\ bilge' = set_water_level(bilge, compartment_id, level)
        /\ last' = SimulatorCall
        /\ ret' = None
        /\ UNCHANGED <<panel, systems, maintenance_mode, fire, esd, last_run, clock>>

BilgeRunSimulation ==
    /\ bilge' = bilge_run_simulation(bilge)
    /\ last' = SimulatorCall
    /\ ret' = None
    /\ UNCHANGED <<panel, systems, maintenance_mode, fire, esd, last_run, clock>>

\* ------------------------------------------------------------------------
\* DiagnosticsSimulator
\* ------------------------------------------------------------------------

\* faulty variant: one alarm is enough for the verdict
both_alarms_either(name, alarms) ==
    IF HasAttr(name, "get_alarm_status") THEN alarms.visual \/ alarms.audible ELSE FALSE

\* status.get("visual") and status.get("audible"), status being {} without get_alarm_status
both_alarms(name, alarms) ==
    IF HasAttr(name, "get_alarm_status") THEN alarms.visual /\ alarms.audible ELSE FALSE

\* faulty variant: the probe clears the alarms it raised once it has its verdict
diag_fire_restoring(f) ==
    LET f1 == [f EXCEPT !.alarms = NoAlarms]
        f2 == set_sensor_value(f1, 1, "temp", DiagTemp)
        f3 == set_sensor_value(f2, 1, "smoke", DiagSmoke)
        f4 == fire_run_simulation(f3)
    IN  [obj |-> [f4 EXCEPT !.alarms = NoAlarms],
         pass |-> both_alarms("fire", f4.alarms)]

\* run_all_diagnostics, lines 27-44: the fire simulator afterwards and the verdict
diag_fire(f) ==
    LET f1 == IF HasAttr("fire", "alarms") THEN [f EXCEPT !.alarms = NoAlarms] ELSE f
    IN  IF HasAttr("fire", "set_sensor_value") /\ HasAttr("fire", "run_simulation")
        THEN LET f2 == set_sensor_value(f1, 1, "temp", DiagTemp)
                 f3 == set_sensor_value(f2, 1, "smoke", DiagSmoke)
                 f4 == fire_run_simulation(f3)
             IN  [obj |-> f4, pass |-> both_alarms("fire", f4.alarms)]
        ELSE [obj |-> f1, pass |-> FALSE]

\* faulty variant: the shutdown is activated from a control point the ESD does not have
diag_esd_unknown_point(e, elapsed) ==
    LET e1 == IF HasAttr("esd", "fuel_valves")
              THEN [e EXCEPT !.fuel_valves.main = "open", !.fuel_valves.auxiliary = "open"]
              ELSE e
        e2 == IF HasAttr("esd", "alarm_interface")
              THEN [e1 EXCEPT !.alarm_interface.signal_sent = FALSE]
              ELSE e1
    IN  IF HasAttr("esd", "activate_shutdown")
        THEN LET time == shutdown_time(e2, "helm", elapsed)
                 e3 == activate_shutdown(e2, "helm")
                 valves_closed ==
                     IF HasAttr("esd", "get_valve_status")
                     THEN \A v \in DOMAIN get_valve_status(e3) :
                              get_valve_status(e3)[v] = "closed"
                     ELSE TRUE
                 signal_sent ==
                     IF HasAttr("esd", "alarm_interface")
                     THEN e3.alarm_interface.signal_sent
                     ELSE FALSE
             IN  [obj |-> e3, pass |-> (time # None /\ valves_closed /\ signal_sent)]
        ELSE [obj |-> e2, pass |-> FALSE]

\* run_all_diagnostics, lines 47-71: the ESD simulator afterwards and the verdict
diag_esd(e, elapsed) ==
    LET e1 == IF HasAttr("esd", "fuel_valves")
              THEN [e EXCEPT !.fuel_valves.main = "open", !.fuel_valves.auxiliary = "open"]
              ELSE e
        e2 == IF HasAttr("esd", "alarm_interface")
              THEN [e1 EXCEPT !.alarm_interface.signal_sent = FALSE]
              ELSE e1
    IN  IF HasAttr("esd", "activate_shutdown")
        THEN LET time == shutdown_time(e2, "bridge", elapsed)
                 e3 == activate_shutdown(e2, "bridge")
                 valves_closed ==
                     IF HasAttr("esd", "get_valve_status")
                     THEN \A v \in DOMAIN get_valve_status(e3) :
                              get_valve_status(e3)[v] = "closed"
                     ELSE TRUE
                 signal_sent ==
                     IF HasAttr("esd", "alarm_interface")
                     THEN e3.alarm_interface.signal_sent
                     ELSE FALSE
             IN  [obj |-> e3, pass |-> (time # None /\ valves_closed /\ signal_sent)]
        ELSE [obj |-> e2, pass |-> FALSE]

\* next(iter(compartments)): the first compartment built, None when there is none
first_compartment(b) ==
    IF DOMAIN b.compartments = {} THEN None
    ELSE Some(CHOOSE c \in DOMAIN b.compartments : \A d \in DOMAIN b.compartments : c <= d)

\* run_all_diagnostics, lines 74-95: the bilge simulator afterwards and the verdict
diag_bilge(b) ==
    LET b1 == IF HasAttr("bilge", "alarms") THEN [b EXCEPT !.alarms = NoAlarms] ELSE b
        comp_id == IF HasAttr("bilge", "compartments") THEN first_compartment(b1) ELSE None
    IN  IF comp_id # None /\ HasAttr("bilge", "set_water_level")
                          /\ HasAttr("bilge", "run_simulation")
        THEN LET threshold == b1.compartments[comp_id[1]].alarm_threshold
                 b2 == set_water_level(b1, comp_id[1], threshold + 1)
                 b3 == bilge_run_simulation(b2)
             IN  [obj |-> b3, pass |-> both_alarms("bilge", b3.alarms)]
        ELSE [obj |-> b1, pass |-> FALSE]

RunAllDiagnostics ==
    \E elapsed \in ElapsedTimes :
        LET f == diag_fire(fire)
            e == diag_esd(esd, elapsed)
            b == diag_bilge(bilge)
        IN  /\ clock < MaxClock
            /\ fire' = f.obj
            /\ esd' = e.obj
            /\ bilge' = b.obj
            /\ clock' = clock + 1
            /\ last_run' = Some(clock + 1)
            /\ last' = [op |-> "run_all_diagnostics", args |-> <<>>]
            /\ ret' = [fire |-> f.pass, esd |-> e.pass, bilge |-> b.pass]
            /\ UNCHANGED <<panel, systems, maintenance_mode>>

\* ------------------------------------------------------------------------
\* Diagnostics of subsystems that misbehave
\* ------------------------------------------------------------------------

\* what the probed call of a subsystem does in a run: "none" is the
\* simulator's own behaviour, "raises" an exception out of the call
FireFaults == {"none", "raises", "silent", "visual_only"}
EsdFaults == {"none", "raises", "no_time", "valve_stuck", "no_signal"}
BilgeFaults == {"none", "raises", "silent", "visual_only"}

FaultInputs == [fire : FireFaults, esd : EsdFaults, bilge : BilgeFaults]

\* run_simulation of a subsystem that raises no alarm ("silent") or only the
\* visual one ("visual_only"); nominal is the simulator's own result
run_simulation_under(fault, obj, nominal) ==
    CASE fault = "none"        -> nominal
      [] fault = "silent"      -> obj
      [] fault = "visual_only" -> [obj EXCEPT !.alarms.visual = nominal.alarms.visual]

\* activate_shutdown of an ESD that returns None and does nothing ("no_time"),
\* leaves the auxiliary valve as it is ("valve_stuck") or sends no signal
\* ("no_signal")
activate_shutdown_under(fault, e, activation_point) ==
    LET nominal == activate_shutdown(e, activation_point)
    IN  CASE fault = "none"        -> nominal
          [] fault = "no_time"     -> e
          [] fault = "valve_stuck" ->
                 [nominal EXCEPT !.fuel_valves.auxiliary = e.fuel_valves.auxiliary]
          [] fault = "no_signal"   ->
                 [nominal EXCEPT !.alarm_interface.signal_sent =
                                      e.alarm_interface.signal_sent]

\* what that activate_shutdown returns
shutdown_time_under(fault, e, activation_point, elapsed) ==
    IF fault = "no_time" THEN None ELSE shutdown_time(e, activation_point, elapsed)

\* lines 27-44 with run_simulation behaving as the fault says: the fire
\* system afterwards, the verdict, and whether the except clause was taken
probe_fire(f, fault) ==
    LET f1 == IF HasAttr("fire", "alarms") THEN [f EXCEPT !.alarms = NoAlarms] ELSE f
    IN  IF HasAttr("fire", "set_sensor_value") /\ HasAttr("fire", "run_simulation")
        THEN LET f2 == set_sensor_value(f1, 1, "temp", DiagTemp)
                 f3 == set_sensor_value(f2, 1, "smoke", DiagSmoke)
             IN  IF fault = "raises"
                 THEN [obj |-> f3, pass |-> FALSE, raised |-> TRUE]
                 ELSE LET f4 == run_simulation_under(fault, f3, fire_run_simulation(f3))
                      IN  [obj |-> f4, pass |-> both_alarms("fire", f4.alarms),
                           raised |-> FALSE]
        ELSE [obj |-> f1, pass |-> FALSE, raised |-> FALSE]

\* faulty variant: the verdict does not look at the valves
probe_esd_ignoring_valves(e, fault, elapsed) ==
    LET e1 == [e EXCEPT !.fuel_valves.main = "open", !.fuel_valves.auxiliary = "open"]
        e2 == [e1 EXCEPT !.alarm_interface.signal_sent = FALSE]
    IN  IF fault = "raises"
        THEN [obj |-> e2, pass |-> FALSE, raised |-> TRUE]
        ELSE LET time == shutdown_time_under(fault, e2, "bridge", elapsed)
                 e3 == activate_shutdown_under(fault, e2, "bridge")
             IN  [obj |-> e3,
                  pass |-> (time # None /\ e3.alarm_interface.signal_sent),
                  raised |-> FALSE]

\* lines 47-71 with activate_shutdown behaving as the fault says
probe_esd(e, fault, elapsed) ==
    LET e1 == IF HasAttr("esd", "fuel_valves")
              THEN [e EXCEPT !.fuel_valves.main = "open", !.fuel_valves.auxiliary = "open"]
              ELSE e
        e2 == IF HasAttr("esd", "alarm_interface")
              THEN [e1 EXCEPT !.alarm_interface.signal_sent = FALSE]
              ELSE e1
    IN  IF HasAttr("esd", "activate_shutdown")
        THEN IF fault = "raises"
             THEN [obj |-> e2, pass |-> FALSE, raised |-> TRUE]
             ELSE LET time == shutdown_time_under(fault, e2, "bridge", elapsed)
                      e3 == activate_shutdown_under(fault, e2, "bridge")
                      valves_closed ==
                          IF HasAttr("esd", "get_valve_status")
                          THEN \A v \in DOMAIN get_valve_status(e3) :
                                   get_valve_status(e3)[v] = "closed"
                          ELSE TRUE
                      signal_sent ==
                          IF HasAttr("esd", "alarm_interface")
                          THEN e3.alarm_interface.signal_sent
                          ELSE FALSE
                  IN  [obj |-> e3,
                       pass |-> (time # None /\ valves_closed /\ signal_sent),
                       raised |-> FALSE]
        ELSE [obj |-> e2, pass |-> FALSE, raised |-> FALSE]

\* faulty variant: the level is raised to the threshold, not above it
probe_bilge_at_threshold(b, fault) ==
    LET b1 == [b EXCEPT !.alarms = NoAlarms]
        comp_id == first_compartment(b1)
        threshold == b1.compartments[comp_id[1]].alarm_threshold
        b2 == set_water_level(b1, comp_id[1], threshold)
    IN  IF fault = "raises"
        THEN [obj |-> b2, pass |-> FALSE, raised |-> TRUE]
        ELSE LET b3 == run_simulation_under(fault, b2, bilge_run_simulation(b2))
             IN  [obj |-> b3, pass |-> both_alarms("bilge", b3.alarms), raised |-> FALSE]

\* lines 74-95 with run_simulation behaving as the fault says
probe_bilge(b, fault) ==
    LET b1 == IF HasAttr("bilge", "alarms") THEN [b EXCEPT !.alarms = NoAlarms] ELSE b
        comp_id == IF HasAttr("bilge", "compartments") THEN first_compartment(b1) ELSE None
    IN  IF comp_id # None /\ HasAttr("bilge", "set_water_level")
                          /\ HasAttr("bilge", "run_simulation")
        THEN LET threshold == b1.compartments[comp_id[1]].alarm_threshold
                 b2 == set_water_level(b1, comp_id[1], threshold + 1)
             IN  IF fault = "raises"
                 THEN [obj |-> b2, pass |-> FALSE, raised |-> TRUE]
                 ELSE LET b3 == run_simulation_under(fault, b2, bilge_run_simulation(b2))
                      IN  [obj |-> b3, pass |-> both_alarms("bilge", b3.alarms),
                           raised |-> FALSE]
        ELSE [obj |-> b1, pass |-> FALSE, raised |-> FALSE]

\* faulty variant: one try block around the three probes, an exception ends
\* the run of the probes after it
probes_single_try(faults, elapsed) ==
    LET pf == probe_fire(fire, faults.fire)
        pe == IF pf.raised
              THEN [obj |-> esd, pass |-> FALSE, raised |-> FALSE]
              ELSE probe_esd(esd, faults.esd, elapsed)
        pb == IF pf.raised \/ pe.raised
              THEN [obj |-> bilge, pass |-> FALSE, raised |-> FALSE]
              ELSE probe_bilge(bilge, faults.bilge)
    IN  [fire |-> pf, esd |-> pe, bilge |-> pb]

\* lines 25-95: the three try blocks, one after the other
probes(faults, elapsed) ==
    [fire |-> probe_fire(fire, faults.fire),
     esd |-> probe_esd(esd, faults.esd, elapsed),
     bilge |-> probe_bilge(bilge, faults.bilge)]

\* faulty variant: a run in which a probe raised does not record its time
RunAllDiagnosticsUnder_unrecorded_on_raise ==
    /\ clock < MaxClock
    /\ \E faults \in FaultInputs :
           \E p \in {probes(faults, elapsed) : elapsed \in ElapsedTimes} :
               /\ fire' = p.fire.obj
               /\ esd' = p.esd.obj
               /\ bilge' = p.bilge.obj
               /\ clock' = clock + 1
               /\ last_run' = IF p.fire.raised \/ p.esd.raised \/ p.bilge.raised
                               THEN last_run
                               ELSE Some(clock + 1)
               /\ last' = [op |-> "run_all_diagnostics", args |-> <<faults>>]
               /\ ret' = [fire |-> p.fire.pass, esd |-> p.esd.pass,
                          bilge |-> p.bilge.pass]
               /\ UNCHANGED <<systems, maintenance_mode, panel>>

\* run_all_diagnostics over subsystems that behave as the faults say
RunAllDiagnosticsUnder ==
    /\ clock < MaxClock
    /\ \E faults \in FaultInputs :
           \E p \in {probes(faults, elapsed) : elapsed \in ElapsedTimes} :
               /\ fire' = p.fire.obj
               /\ esd' = p.esd.obj
               /\ bilge' = p.bilge.obj
               /\ clock' = clock + 1
               /\ last_run' = Some(clock + 1)
               /\ last' = [op |-> "run_all_diagnostics", args |-> <<faults>>]
               /\ ret' = [fire |-> p.fire.pass, esd |-> p.esd.pass,
                          bilge |-> p.bilge.pass]
               /\ UNCHANGED <<systems, maintenance_mode, panel>>

NextFaults ==
    \/ FireSetSensorValue
    \/ FireRunSimulation
    \/ EsdActivateShutdown
    \/ BilgeSetWaterLevel
    \/ BilgeRunSimulation
    \/ RunAllDiagnosticsUnder

SpecFaults == Init /\ [][NextFaults]_vars

\* ------------------------------------------------------------------------
\* Power failure
\* ------------------------------------------------------------------------

\* BilgeAlarmSimulator.simulate_power_failure: the delay it reports, in
\* tenths of a second
PowerFailureDelay == 23

\* FireDetectionSimulator.trigger_power_failure: the simulator afterwards
trigger_power_failure(f) == [f EXCEPT !.power_status = "emergency"]

\* BilgeAlarmSimulator.simulate_power_failure: the simulator afterwards
simulate_power_failure(b) == [b EXCEPT !.power_status = "failed"]

FireTriggerPowerFailure ==
    /\ fire' = trigger_power_failure(fire)
    /\ last' = [op |-> "trigger_power_failure", args |-> <<>>]
    /\ ret' = Some(TRUE)
    /\ UNCHANGED <<panel, systems, maintenance_mode, esd, bilge, last_run, clock>>

\* faulty variant: the power failure is not notified
BilgeSimulatePowerFailure_silent ==
    /\ bilge' = simulate_power_failure(bilge)
    /\ last' = [op |-> "simulate_power_failure", args |-> <<>>]
    /\ ret' = [notification_sent |-> FALSE, time_delay |-> PowerFailureDelay]
    /\ UNCHANGED <<panel, systems, maintenance_mode, fire, esd, last_run, clock>>

\* BilgeAlarmSimulator.simulate_power_failure
BilgeSimulatePowerFailure ==
    /\ bilge' = simulate_power_failure(bilge)
    /\ last' = [op |-> "simulate_power_failure", args |-> <<>>]
    /\ ret' = [notification_sent |-> TRUE, time_delay |-> PowerFailureDelay]
    /\ UNCHANGED <<panel, systems, maintenance_mode, fire, esd, last_run, clock>>

NextPower ==
    \/ FireTriggerPowerFailure
    \/ BilgeSimulatePowerFailure
    \/ FireSetSensorValue
    \/ FireRunSimulation
    \/ FireClearAlarms
    \/ BilgeSetWaterLevel
    \/ BilgeRunSimulation

SpecPower == Init /\ [][NextPower]_vars

\* ------------------------------------------------------------------------
\* Other registrations: subsystem objects with both capabilities or none
\* ------------------------------------------------------------------------

\* the alarms field of the panel is overwritten
PanelSetAlarms ==
    \E visual \in BOOLEAN, audible \in BOOLEAN :
        /\ panel' = [panel EXCEPT !.alarms = [visual |-> visual, audible |-> audible]]
        /\ last' = SimulatorCall
        /\ ret' = None
        /\ UNCHANGED <<systems, maintenance_mode, fire, esd, bilge, last_run, clock>>

\* the signal flag of the panel's alarm_interface is written
PanelSetSignal ==
    \E signal_sent \in BOOLEAN :
        /\ panel' = [panel EXCEPT !.alarm_interface.signal_sent = signal_sent]
        /\ last' = SimulatorCall
        /\ ret' = None
        /\ UNCHANGED <<systems, maintenance_mode, fire, esd, bilge, last_run, clock>>

\* set_maintenance_mode with a registered name or with one never registered
RegistrySetMaintenanceMode ==
    \E system_name \in Range(systems) \cup {"ballast"}, mode \in BOOLEAN :
        set_maintenance_mode(system_name, mode)

\* the interface and the subsystems handed to it are operated
NextRegistry ==
    \/ RegistrySetMaintenanceMode
    \/ CheckAlarms
    \/ ResetAll
    \/ ("fire" \in Range(systems) /\ FireSetSensorValue)
    \/ ("fire" \in Range(systems) /\ FireRunSimulation)
    \/ ("esd" \in Range(systems) /\ EsdActivateShutdown)
    \/ ("bilge" \in Range(systems) /\ BilgeSetWaterLevel)
    \/ ("bilge" \in Range(systems) /\ BilgeRunSimulation)
    \/ ("panel" \in Range(systems) /\ PanelSetAlarms)
    \/ ("panel" \in Range(systems) /\ PanelSetSignal)

SpecRegistry == InitRegistry /\ [][NextRegistry]_vars

\* the simulators, driven directly, and the two ways their alarms are cleared
NextLatch ==
    \/ FireSetSensorValue
    \/ FireRunSimulation
    \/ FireClearAlarms
    \/ EsdActivateShutdown
    \/ BilgeSetWaterLevel
    \/ BilgeRunSimulation
    \/ ResetAll

SpecLatch == Init /\ [][NextLatch]_vars

Next ==
    \/ SetMaintenanceMode
    \/ CheckAlarms
    \/ ResetAll
    \/ FireSetSensorValue
    \/ FireRunSimulation
    \/ FireClearAlarms
    \/ EsdActivateShutdown
    \/ EsdClearSignal
    \/ BilgeSetWaterLevel
    \/ BilgeRunSimulation
    \/ RunAllDiagnostics

Spec == Init /\ [][Next]_vars

\* ------------------------------------------------------------------------
\* Vocabulary of the properties
\* ------------------------------------------------------------------------

RegisteredNames == Range(systems)

\* the subsystem's alarm condition, read from the simulator's own fields
AlarmIsActive(n) ==
    CASE n = "fire"  -> fire.alarms.visual \/ fire.alarms.audible
      [] n = "esd"   -> esd.alarm_interface.signal_sent
      [] n = "bilge" -> bilge.alarms.visual \/ bilge.alarms.audible
      [] n = "panel" -> panel.alarms.visual \/ panel.alarms.audible
      [] n = "beacon" -> FALSE

\* check_alarms was the most recent call, so ret is its result for the current state
Checked == last.op = "check_alarms"

\* how often a name occurs in a sequence
Occurrences(s, n) == Cardinality({i \in 1..Len(s) : s[i] = n})

Triggered(r) == Range(r.triggered_systems)
Suppressed(r) == Range(r.suppressed_alarms)

\* C1: after check_alarms, every registered subsystem whose alarm is active
\* while its maintenance flag is on is listed in suppressed_alarms and not in
\* triggered_systems, and if every active subsystem is in maintenance mode
\* the overall alarm is false.
C1_SuppressedInMaintenance ==
    Checked =>
        /\ \A n \in RegisteredNames :
               (AlarmIsActive(n) /\ maintenance_mode[n]) =>
                   (n \in Suppressed(ret) /\ n \notin Triggered(ret))
        /\ (\A n \in RegisteredNames : AlarmIsActive(n) => maintenance_mode[n]) =>
               ret.overall_alarm = FALSE

\* C1 witness: a check in which the fire and bilge alarms are both active
\* and both suppressed, and the overall alarm is off
C1_Witness ==
    /\ Checked
    /\ AlarmIsActive("fire") /\ maintenance_mode["fire"]
    /\ AlarmIsActive("bilge") /\ maintenance_mode["bilge"]
    /\ ~AlarmIsActive("esd")
    /\ ret.suppressed_alarms = <<"fire", "bilge">>
    /\ ret.overall_alarm = FALSE

\* C2: after check_alarms, every registered subsystem whose alarm is active
\* while its maintenance flag is off is listed in triggered_systems and the
\* overall alarm is true; one such subsystem is enough.
C2_TriggeredOutsideMaintenance ==
    Checked =>
        \A n \in RegisteredNames :
            (AlarmIsActive(n) /\ ~maintenance_mode[n]) =>
                (n \in Triggered(ret) /\ ret.overall_alarm = TRUE)

\* C2 witness: the ESD signal alone raises the overall alarm
C2_Witness ==
    /\ Checked
    /\ AlarmIsActive("esd") /\ ~maintenance_mode["esd"]
    /\ ~AlarmIsActive("fire") /\ ~AlarmIsActive("bilge")
    /\ ret.triggered_systems = <<"esd">>
    /\ ret.overall_alarm = TRUE

\* C3: the overall alarm check_alarms returns is true exactly when some
\* registered subsystem has an active alarm outside maintenance mode, which
\* is exactly when triggered_systems is not empty.
C3_OverallIffTriggered ==
    Checked =>
        /\ ret.overall_alarm =
               (\E n \in RegisteredNames : AlarmIsActive(n) /\ ~maintenance_mode[n])
        /\ ret.overall_alarm = (ret.triggered_systems # <<>>)

\* C3 witness: a check with one alarm suppressed and another one triggered
C3_Witness ==
    /\ Checked
    /\ ret.overall_alarm = TRUE
    /\ ret.suppressed_alarms # <<>>
    /\ Len(ret.triggered_systems) = 1

\* C4: in a result of check_alarms a name occurs at most once in
\* triggered_systems and suppressed_alarms taken together, and it occurs only
\* if that subsystem's alarm condition is active.
C4_AtMostOneListing ==
    Checked =>
        \A n \in Triggered(ret) \cup Suppressed(ret) \cup RegisteredNames :
            /\ Occurrences(ret.triggered_systems, n)
                   + Occurrences(ret.suppressed_alarms, n) <= 1
            /\ (n \in Triggered(ret) \cup Suppressed(ret)) =>
                   (n \in RegisteredNames /\ AlarmIsActive(n))

\* C4 witness: all three alarms are active, two triggered and one suppressed
C4_Witness ==
    /\ Checked
    /\ \A n \in RegisteredNames : AlarmIsActive(n)
    /\ ret.triggered_systems = <<"fire", "bilge">>
    /\ ret.suppressed_alarms = <<"esd">>

\* a step that is a call of set_maintenance_mode(n, mode)
SetMaintenanceCall(n, mode) ==
    /\ last'.op = "set_maintenance_mode"
    /\ last'.args = <<n, mode>>

\* C5: suppression is not latched. When check_alarms has just listed a
\* subsystem in suppressed_alarms and set_maintenance_mode(name, False) is the
\* next call, the result of check_alarms in the state that call leaves lists
\* the subsystem in triggered_systems, not in suppressed_alarms, with the
\* overall alarm true.
C5_SuppressionNotLatched ==
    [][\A n \in RegisteredNames :
          (Checked /\ n \in Suppressed(ret) /\ SetMaintenanceCall(n, FALSE)) =>
              LET next_result == check_alarms'
              IN  /\ n \in Triggered(next_result)
                  /\ n \notin Suppressed(next_result)
                  /\ next_result.overall_alarm = TRUE]_vars

\* C5 witness: maintenance mode of the bilge system was just switched off
\* while its alarm is active and nothing else is triggered
C5_Witness ==
    /\ last = [op |-> "set_maintenance_mode", args |-> <<"bilge", FALSE>>]
    /\ AlarmIsActive("bilge")
    /\ maintenance_mode["fire"] /\ maintenance_mode["esd"]
    /\ check_alarms.triggered_systems = <<"bilge">>
    /\ check_alarms.overall_alarm = TRUE

\* C6: set_maintenance_mode with a name that is not registered returns False
\* and leaves the flag mapping as it was: no registered flag changes and no
\* flag is added.
C6_UnknownNameRejected ==
    [][\A n \in CallNames \ RegisteredNames, mode \in BOOLEAN :
          SetMaintenanceCall(n, mode) =>
              /\ ret' = FALSE
              /\ maintenance_mode' = maintenance_mode
              /\ DOMAIN maintenance_mode' = RegisteredNames]_vars

\* C6 witness: the call with the unregistered name has returned False while
\* some flags are on and some are off
C6_Witness ==
    /\ last = [op |-> "set_maintenance_mode", args |-> <<"ballast", TRUE>>]
    /\ ret = FALSE
    /\ maintenance_mode = [fire |-> TRUE, esd |-> FALSE, bilge |-> TRUE]

\* C7: set_maintenance_mode(name, enabled) with a registered name returns
\* True, sets that flag to enabled, and changes no other flag and no
\* simulator.
C7_RegisteredNameSet ==
    [][\A n \in RegisteredNames, mode \in BOOLEAN :
          SetMaintenanceCall(n, mode) =>
              /\ ret' = TRUE
              /\ maintenance_mode'[n] = mode
              /\ \A m \in RegisteredNames \ {n} :
                     maintenance_mode'[m] = maintenance_mode[m]
              /\ DOMAIN maintenance_mode' = DOMAIN maintenance_mode
              /\ UNCHANGED <<systems, fire, esd, bilge, panel, last_run>>]_vars

\* C7 witness: the ESD flag was just switched on while the fire flag is on,
\* the bilge flag is off and the ESD signal is set
C7_Witness ==
    /\ last = [op |-> "set_maintenance_mode", args |-> <<"esd", TRUE>>]
    /\ ret = TRUE
    /\ maintenance_mode = [fire |-> TRUE, esd |-> TRUE, bilge |-> FALSE]
    /\ esd.alarm_interface.signal_sent

\* C8: check_alarms changes no simulator and no maintenance flag, its result
\* is the aggregation of the state it is called in, and a second call right
\* after the first returns an equal result.
C8_CheckIsPure ==
    [][(last'.op = "check_alarms") =>
          /\ UNCHANGED <<systems, maintenance_mode, fire, esd, bilge, panel>>
          /\ ret' = check_alarms
          /\ Checked => ret' = ret]_vars

\* C8 witness: a check that found the fire alarm triggered and the bilge
\* alarm suppressed, with a sensor over its threshold and the valves closed
C8_Witness ==
    /\ Checked
    /\ ret.triggered_systems = <<"fire">>
    /\ ret.suppressed_alarms = <<"bilge">>
    /\ sensor_over_threshold(fire.sensors[1])
    /\ esd.fuel_valves.main = "closed"

\* C9: every maintenance flag is false at construction, and a step changes
\* the flags only if it is a call of set_maintenance_mode.
C9_FlagsOnlyBySetter ==
    /\ \A n \in RegisteredNames : maintenance_mode[n] = FALSE
    /\ [][(maintenance_mode' # maintenance_mode) =>
              last'.op = "set_maintenance_mode"]_vars

\* C9 witness: the diagnostics were run and all was reset while the flags
\* set before are still on
C9_Witness ==
    /\ last.op = "reset_all"
    /\ last_run # None
    /\ maintenance_mode = [fire |-> TRUE, esd |-> TRUE, bilge |-> FALSE]

\* C10: when no registered subsystem has an active alarm, check_alarms
\* returns the overall alarm false and both sequences empty, whatever the
\* maintenance flags are.
C10_QuietWhenNoAlarm ==
    (Checked /\ \A n \in RegisteredNames : ~AlarmIsActive(n)) =>
        ret = [overall_alarm |-> FALSE,
               triggered_systems |-> <<>>,
               suppressed_alarms |-> <<>>]

\* C10 witness: a check with no alarm active, two flags on, the valves
\* closed by an earlier shutdown and a level over the threshold not yet
\* simulated
C10_Witness ==
    /\ Checked
    /\ \A n \in RegisteredNames : ~AlarmIsActive(n)
    /\ maintenance_mode = [fire |-> TRUE, esd |-> FALSE, bilge |-> TRUE]
    /\ esd.fuel_valves.main = "closed"
    /\ compartment_over_threshold(bilge.compartments[1])
    /\ ret.overall_alarm = FALSE

\* the result of a check that found nothing
QuietResult ==
    [overall_alarm |-> FALSE, triggered_systems |-> <<>>, suppressed_alarms |-> <<>>]

Position(n) == CHOOSE k \in 1..Len(systems) : systems[k] = n

\* the names of a sequence stand in the order of their registration
InRegistrationOrder(s) ==
    \A i \in 1..Len(s), j \in 1..Len(s) : (i < j) => Position(s[i]) < Position(s[j])

\* C18: a registered subsystem with neither get_alarm_status nor an
\* alarm_interface field is in neither sequence of a check result and has no
\* part in the overall alarm, whatever its maintenance flag is.
C18_NoCapabilityIsInactive ==
    (Checked /\ "beacon" \in RegisteredNames) =>
        /\ "beacon" \notin Triggered(ret) \cup Suppressed(ret)
        /\ ret.overall_alarm =
               (\E n \in RegisteredNames \ {"beacon"} :
                    AlarmIsActive(n) /\ ~maintenance_mode[n])

\* C18 witness: a check over a registration with such a subsystem outside
\* maintenance mode, in which only the ESD is triggered
C18_Witness ==
    /\ Checked
    /\ systems = <<"esd", "panel", "beacon">>
    /\ maintenance_mode["beacon"] = FALSE
    /\ ret.triggered_systems = <<"esd">>
    /\ ret.suppressed_alarms = <<>>

\* C19: the names in triggered_systems and in suppressed_alarms stand in the
\* order in which the subsystems were registered.
C19_RegistrationOrder ==
    Checked =>
        /\ InRegistrationOrder(ret.triggered_systems)
        /\ InRegistrationOrder(ret.suppressed_alarms)

\* C19 witness: bilge, esd and fire registered in this order, the first and
\* the last suppressed
C19_Witness ==
    /\ Checked
    /\ systems = <<"bilge", "esd", "fire">>
    /\ ret.suppressed_alarms = <<"bilge", "fire">>
    /\ ret.triggered_systems = <<"esd">>

AllPassed == [fire |-> TRUE, esd |-> TRUE, bilge |-> TRUE]

\* C12: run_all_diagnostics on the three simulators returns fire, esd and
\* bilge all true, on fresh simulators, on a repeated run, and after alarms
\* were raised, cleared or suppressed in any way before.
C12_DiagnosticsAllPass ==
    (last.op = "run_all_diagnostics") => ret = AllPassed

\* C12 witness: the second run of the diagnostics has returned all true
C12_Witness ==
    /\ last.op = "run_all_diagnostics"
    /\ last_run = Some(2)
    /\ ret = AllPassed

\* some compartment stands exactly at its alarm threshold
AtThreshold(b) ==
    \E c \in DOMAIN b.compartments :
        b.compartments[c].water_level = b.compartments[c].alarm_threshold

DiagnosedSystems == {"fire", "esd", "bilge"}

\* the step is a run of run_all_diagnostics
DiagnosticsRun == last'.op = "run_all_diagnostics"

\* how the subsystems behaved in the run just made
RunFaults == last.args[1]

\* what the probe of subsystem n does on its own from the current state
Outcome(n, fault) ==
    CASE n = "fire"  -> probe_fire(fire, fault)
      [] n = "esd"   -> probe_esd(esd, fault, MinShutdownTime)
      [] n = "bilge" -> probe_bilge(bilge, fault)

\* what the probe of n does when n is the simulator and nothing raises
Nominal(n) ==
    CASE n = "fire"  -> diag_fire(fire)
      [] n = "esd"   -> diag_esd(esd, MinShutdownTime)
      [] n = "bilge" -> diag_bilge(bilge)

Subsystem(n) ==
    CASE n = "fire" -> fire [] n = "esd" -> esd [] n = "bilge" -> bilge

\* C13: when a probe of run_all_diagnostics raises, the run still returns a
\* verdict for each of the three subsystems and records its time; the
\* subsystem whose probe raised is reported false, and every other probe
\* runs as it would on its own: same verdict, same effect on its subsystem,
\* and for a subsystem that behaves as the simulator the verdict and effect
\* of a run in which nothing raises.
C13_ProbeFailureIsolated ==
    [][DiagnosticsRun =>
          \A n \in DiagnosedSystems :
              RunFaults'[n] = "raises" =>
                  /\ DOMAIN ret' = DiagnosedSystems
                  /\ last_run' = Some(clock')
                  /\ ret'[n] = FALSE
                  /\ \A m \in DiagnosedSystems \ {n} :
                         /\ ret'[m] = Outcome(m, RunFaults'[m]).pass
                         /\ Subsystem(m)' = Outcome(m, RunFaults'[m]).obj
                         /\ RunFaults'[m] = "none" =>
                                /\ ret'[m] = Nominal(m).pass
                                /\ Subsystem(m)' = Nominal(m).obj]_vars

C13_Witness ==
    /\ last.op = "run_all_diagnostics"
    /\ RunFaults = [fire |-> "none", esd |-> "raises", bilge |-> "none"]
    /\ ret = [fire |-> TRUE, esd |-> FALSE, bilge |-> TRUE]
    /\ both_alarms("bilge", bilge.alarms)
    /\ last_run = Some(clock)

AllValvesClosed(e) == \A v \in DOMAIN e.fuel_valves : e.fuel_valves[v] = "closed"

AllValvesOpen(e) == \A v \in DOMAIN e.fuel_valves : e.fuel_valves[v] = "open"

\* C14: the ESD probe passes exactly when activate_shutdown returned a time,
\* every fuel valve reads closed afterwards and the alarm signal is set. The
\* probe reopens the valves and clears the signal first (an ESD whose
\* activation does nothing is left with open valves and no signal), and it
\* activates one control point, the bridge.
C14_EsdProbeVerdict ==
    [][(DiagnosticsRun /\ RunFaults'.esd # "raises") =>
          /\ ret'.esd <=> /\ RunFaults'.esd # "no_time"
                          /\ AllValvesClosed(esd')
                          /\ esd'.alarm_interface.signal_sent
          /\ RunFaults'.esd = "no_time" =>
                 /\ AllValvesOpen(esd')
                 /\ ~esd'.alarm_interface.signal_sent
                 /\ esd'.activation_points = esd.activation_points
          /\ RunFaults'.esd = "none" =>
                 /\ esd'.activation_points =
                        [esd.activation_points EXCEPT !.bridge = TRUE]
                 /\ ret'.esd = TRUE]_vars

C14_Witness ==
    /\ last.op = "run_all_diagnostics"
    /\ RunFaults.esd = "valve_stuck"
    /\ ret.esd = FALSE
    /\ esd.alarm_interface.signal_sent
    /\ esd.fuel_valves = [main |-> "closed", auxiliary |-> "open"]
    /\ esd.activation_points.bridge

\* C16: the fire probe sets sensor 1 above the temperature and the smoke
\* threshold and passes exactly when the visual and the audible alarm are
\* both active afterwards; it clears the alarms first (a detector that
\* raises nothing is left with no alarm, whatever was latched before) and it
\* advances the simulation (the simulator ends with both alarms and passes).
C16_FireProbeVerdict ==
    [][(DiagnosticsRun /\ RunFaults'.fire # "raises") =>
          /\ ret'.fire <=> (fire'.alarms.visual /\ fire'.alarms.audible)
          /\ fire'.sensors[1].temp > TempThreshold
          /\ fire'.sensors[1].smoke > SmokeThreshold
          /\ \A s \in SensorIds \ {1} : fire'.sensors[s] = fire.sensors[s]
          /\ RunFaults'.fire = "silent" => fire'.alarms = NoAlarms
          /\ RunFaults'.fire = "none" => ret'.fire = TRUE]_vars

C16_Witness ==
    /\ last.op = "run_all_diagnostics"
    /\ RunFaults.fire = "visual_only"
    /\ ret.fire = FALSE
    /\ fire.alarms = [visual |-> TRUE, audible |-> FALSE]
    /\ fire.sensors[1] = [temp |-> DiagTemp, smoke |-> DiagSmoke]

\* C17: the bilge probe raises the water level of one compartment, the
\* first, strictly above that compartment's alarm_threshold and passes
\* exactly when the visual and the audible alarm are both active afterwards;
\* it clears the alarms first and it advances the simulation.
C17_BilgeProbeVerdict ==
    [][(DiagnosticsRun /\ RunFaults'.bilge # "raises") =>
          /\ ret'.bilge <=> (bilge'.alarms.visual /\ bilge'.alarms.audible)
          /\ bilge'.compartments[1].water_level > bilge'.compartments[1].alarm_threshold
          /\ bilge'.compartments[1].alarm_threshold = bilge.compartments[1].alarm_threshold
          /\ \A c \in CompartmentIds \ {1} : bilge'.compartments[c] = bilge.compartments[c]
          /\ RunFaults'.bilge = "silent" => bilge'.alarms = NoAlarms
          /\ RunFaults'.bilge = "none" => ret'.bilge = TRUE]_vars

C17_Witness ==
    /\ last.op = "run_all_diagnostics"
    /\ RunFaults.bilge = "silent"
    /\ ret.bilge = FALSE
    /\ bilge.alarms = NoAlarms
    /\ bilge.compartments[1].water_level = AlarmThreshold + 1

\* ------------------------------------------------------------------------
\* Power failure: properties
\* ------------------------------------------------------------------------

BothAlarms == [visual |-> TRUE, audible |-> TRUE]

FireOnEmergencyPower == fire.power_status = "emergency"

BilgePowerFailed == bilge.power_status = "failed"

FireReadingAboveThreshold ==
    \E s \in DOMAIN fire.sensors :
        fire.sensors[s].temp > TempThreshold \/ fire.sensors[s].smoke > SmokeThreshold

BilgeLevelAboveThreshold ==
    \E c \in DOMAIN bilge.compartments :
        bilge.compartments[c].water_level > bilge.compartments[c].alarm_threshold

\* C20: a power failure does not disable alarm detection. After
\* trigger_power_failure, run_simulation of the fire simulator with a
\* sensor reading above a threshold activates the visual and the audible
\* alarm; after simulate_power_failure, run_simulation of the bilge
\* simulator with a compartment above its alarm_threshold does the same. The
\* power failure itself changes neither readings nor alarms, and the power
\* status stays as the failure left it.
C20_AlarmsOnPowerFailure ==
    [][/\ (FireRunSimulation /\ FireOnEmergencyPower /\ FireReadingAboveThreshold) =>
              fire' = [fire EXCEPT !.alarms = BothAlarms]
       /\ (BilgeRunSimulation /\ BilgePowerFailed /\ BilgeLevelAboveThreshold) =>
              bilge' = [bilge EXCEPT !.alarms = BothAlarms]
       /\ FireTriggerPowerFailure =>
              /\ fire'.sensors = fire.sensors
              /\ fire'.alarms = fire.alarms
              /\ FireOnEmergencyPower'
       /\ BilgeSimulatePowerFailure =>
              /\ bilge'.compartments = bilge.compartments
              /\ bilge'.alarms = bilge.alarms
              /\ BilgePowerFailed'
       /\ FireOnEmergencyPower => FireOnEmergencyPower'
       /\ BilgePowerFailed => BilgePowerFailed']_vars

C20_Witness ==
    /\ FireOnEmergencyPower
    /\ FireReadingAboveThreshold
    /\ fire.alarms = BothAlarms
    /\ BilgePowerFailed
    /\ BilgeLevelAboveThreshold
    /\ bilge.alarms = BothAlarms
    /\ last = SimulatorCall

\* the longest notification delay the power-failure test accepts, in tenths
\* of a second
MaxNotificationDelay == 50

\* C21: every call of simulate_power_failure on the bilge simulator, in
\* whatever state it is made, returns notification_sent true with a
\* time_delay of at most 5 seconds and leaves power_status "failed".
C21_PowerFailureNotified ==
    [][BilgeSimulatePowerFailure =>
          /\ ret'.notification_sent = TRUE
          /\ ret'.time_delay <= MaxNotificationDelay
          /\ bilge'.power_status = "failed"
          /\ bilge'.compartments = bilge.compartments
          /\ bilge'.alarms = bilge.alarms]_vars

\* a second call, made with the alarms active and a compartment over its threshold
C21_Witness ==
    /\ last.op = "simulate_power_failure"
    /\ ret = [notification_sent |-> TRUE, time_delay |-> PowerFailureDelay]
    /\ BilgePowerFailed
    /\ bilge.alarms = BothAlarms
    /\ BilgeLevelAboveThreshold

\* C22: last_run is None until the first run_all_diagnostics has completed;
\* every run_all_diagnostics, whatever its probes did (passed, failed or
\* raised), ends by setting last_run to the time of that run, and nothing
\* else changes last_run.
C22_LastRunRecorded ==
    /\ [](last_run = None <=> clock = 0)
    /\ [][/\ DiagnosticsRun => (last_run' = Some(clock') /\ last_run' # last_run)
          /\ (last_run' # last_run) => DiagnosticsRun]_vars

\* the second run, with a probe that raised and a probe that failed
C22_Witness ==
    /\ last.op = "run_all_diagnostics"
    /\ RunFaults.fire = "raises"
    /\ RunFaults.bilge = "silent"
    /\ ret.fire = FALSE
    /\ ret.bilge = FALSE
    /\ clock = 2
    /\ last_run = Some(2)

\* C23: run_all_diagnostics leaves the subsystems as its probes put them.
\* After a run in which the three probes pass, the fire and the bilge alarms
\* are active, the ESD signal flag is set and both fuel valves are closed;
\* with no maintenance flag set, a check_alarms made then returns the overall
\* alarm with fire, esd and bilge all triggered and nothing suppressed.
C23_DiagnosticsLeaveAlarms ==
    [][(DiagnosticsRun /\ ret' = AllPassed) =>
          /\ fire'.alarms = BothAlarms
          /\ bilge'.alarms = BothAlarms
          /\ esd'.alarm_interface.signal_sent = TRUE
          /\ esd'.fuel_valves = [main |-> "closed", auxiliary |-> "closed"]
          /\ (\A n \in RegisteredNames : ~maintenance_mode'[n]) =>
                 /\ check_alarms'.overall_alarm = TRUE
                 /\ Triggered(check_alarms') = {"fire", "esd", "bilge"}
                 /\ check_alarms'.suppressed_alarms = <<>>]_vars

\* check_alarms after a run of the diagnostics, no flag set
C23_Witness ==
    /\ Checked
    /\ last_run # None
    /\ \A n \in RegisteredNames : ~maintenance_mode[n]
    /\ fire.sensors[1] = [temp |-> DiagTemp, smoke |-> DiagSmoke]
    /\ bilge.compartments[1].water_level = AlarmThreshold + 1
    /\ esd.activation_points.bridge
    /\ ret = [overall_alarm |-> TRUE,
              triggered_systems |-> <<"fire", "esd", "bilge">>,
              suppressed_alarms |-> <<>>]

FireAlarmsActive == fire.alarms.visual \/ fire.alarms.audible

BilgeAlarmsActive == bilge.alarms.visual \/ bilge.alarms.audible

\* C24: the fire and the bilge alarms are latched. run_simulation leaves
\* active alarms as they are, also when no sensor reading and no water level
\* is over its threshold any more; an active alarm goes off only in a step
\* that clears it directly (reset_all, or the overwrite of the alarms
\* field); and run_simulation with a reading or a level over its threshold
\* ends with both alarms active, so also right after a clear.
C24_AlarmsLatched ==
    [][/\ (fire.alarms = BothAlarms /\ FireRunSimulation) => fire'.alarms = BothAlarms
       /\ (bilge.alarms = BothAlarms /\ BilgeRunSimulation) => bilge'.alarms = BothAlarms
       /\ (FireAlarmsActive /\ ~FireAlarmsActive') =>
              (last'.op = "reset_all" \/ FireClearAlarms)
       /\ (BilgeAlarmsActive /\ ~BilgeAlarmsActive') => last'.op = "reset_all"
       /\ (FireReadingAboveThreshold /\ FireRunSimulation) => fire'.alarms = BothAlarms
       /\ (BilgeLevelAboveThreshold /\ BilgeRunSimulation) => bilge'.alarms = BothAlarms
       /\ (last'.op = "reset_all" /\ FireReadingAboveThreshold) =>
              fire_run_simulation(fire').alarms = BothAlarms
       /\ (last'.op = "reset_all" /\ BilgeLevelAboveThreshold) =>
              bilge_run_simulation(bilge').alarms = BothAlarms]_vars

\* alarms still active with every reading and level back below its
\* threshold, after a run of both simulations
C24_Witness ==
    /\ last = SimulatorCall
    /\ last_run = None
    /\ fire.alarms = BothAlarms
    /\ bilge.alarms = BothAlarms
    /\ \A s \in DOMAIN fire.sensors :
           fire.sensors[s].temp < TempThreshold /\ fire.sensors[s].smoke < SmokeThreshold
    /\ \A c \in DOMAIN bilge.compartments :
           bilge.compartments[c].water_level < bilge.compartments[c].alarm_threshold

\* the subsystem stands in one of the two sequences of a check result
Listed(r, n) == n \in Triggered(r) \cup Suppressed(r)

\* C25: for a subsystem with both get_alarm_status and an alarm_interface
\* field, check_alarms lists it exactly when its visual or its audible alarm
\* is active, whatever its signal_sent flag is; the signal_sent flag decides
\* only for a subsystem without get_alarm_status (the ESD).
C25_StatusBeforeSignal ==
    Checked =>
        /\ ("panel" \in RegisteredNames) =>
               /\ Listed(ret, "panel") <=> (panel.alarms.visual \/ panel.alarms.audible)
               /\ (panel.alarm_interface.signal_sent /\ panel.alarms = NoAlarms) =>
                      ~Listed(ret, "panel")
        /\ ("esd" \in RegisteredNames) =>
               (Listed(ret, "esd") <=> esd.alarm_interface.signal_sent)
        /\ ("fire" \in RegisteredNames) =>
               (Listed(ret, "fire") <=> (fire.alarms.visual \/ fire.alarms.audible))
        /\ ("bilge" \in RegisteredNames) =>
               (Listed(ret, "bilge") <=> (bilge.alarms.visual \/ bilge.alarms.audible))
        /\ (\A n \in RegisteredNames : AlarmIsActive(n) => maintenance_mode[n]) =>
               ret.overall_alarm = FALSE

\* a check in which the subsystem with both capabilities has its signal flag
\* set and no alarm, next to an ESD that signalled
C25_Witness ==
    /\ Checked
    /\ systems = <<"esd", "panel", "beacon">>
    /\ panel.alarm_interface.signal_sent
    /\ panel.alarms = NoAlarms
    /\ ~maintenance_mode["panel"]
    /\ ret = [overall_alarm |-> TRUE,
              triggered_systems |-> <<"esd">>,
              suppressed_alarms |-> <<>>]

=============================================================================
